---- MODULE Spec2Model ----
(***************************************************************************)
(* Model of src/openmeteo_client.py (OpenMeteoClient, client version 5.4): *)
(* nearest-hour selection (_pick_index), the u/v to speed/bearing          *)
(* conversion (_uv_to_speed_dir), the four sequential requests of          *)
(* fetch_point and the per-source extraction of extract_values.            *)
(*                                                                         *)
(* JSON scalars are records [k, n, tz]: k is "null", "num", "time" (an     *)
(* ISO-8601 string: local hour n, zone designator tz) or "str" (any other  *)
(* non-empty string).  Numbers are fixed point, in hundredths.             *)
(***************************************************************************)
EXTENDS Integers, Sequences, FiniteSets, TLC

\* ---------------------------------------------------------------- bounds
\* longest hourly time axis a source returns in the pipeline model
MaxLen == 2
\* longest time axis given to _pick_index in the selector model
PickMaxLen == 2
\* time strings of the selector model carry local hours 0..MaxHour
MaxHour == 2

\* ---------------------------------------------------------------- scalars
None == [k |-> "null", n |-> 0, tz |-> ""]
Num(x) == [k |-> "num", n |-> x, tz |-> ""]
\* an ISO-8601 string: local hour h with zone designator tz
\* ("naive": none, "Z": +00:00, "+1": +01:00)
T(h, tz) == [k |-> "time", n |-> h, tz |-> tz]
\* a non-empty string that is neither a timestamp nor a number
BadStr == [k |-> "str", n |-> 0, tz |-> ""]

Zones == {"naive", "Z", "+1"}

\* Python truthiness of a scalar, as used by `a or b`
Truthy(v) == ~(v.k = "null" \/ (v.k = "num" /\ v.n = 0))

\* the value no parse returns: isoparse raised
NoTime == -1000

UtcOffset(tz) == IF tz = "+1" THEN 1 ELSE 0

\* dtparser.isoparse followed by `if tzinfo is None: replace(tzinfo=utc)`:
\* the UTC instant (in hours) of a time string, NoTime when isoparse raises
IsoParseUtc(s) == IF s.k = "time" THEN s.n - UtcOffset(s.tz) ELSE NoTime

Abs(x) == IF x < 0 THEN -x ELSE x

\* ---------------------------------------------------------------- nearest_hour
\* a caller's datetime: hour h, minute m, zone tz; the result is the UTC
\* hour it falls in, and isoformat() of an aware UTC datetime
nearest_hour(dt) ==
  LET utcMin == 60 * (dt.h - UtcOffset(dt.tz)) + dt.m
  IN  T(utcMin \div 60, "Z")

\* ---------------------------------------------------------------- _pick_index
\* lines 51-58: the parsed target, NoTime when requested_iso is falsy or
\* isoparse raises
ParseTargetEpoch(req) == IF req.k = "time" THEN req.n - UtcOffset(req.tz) ELSE 0
ParseTarget(req) == IF Truthy(req) THEN IsoParseUtc(req) ELSE NoTime

\* lines 62-69, one iteration of the scan over entry t at 0-based index i;
\* best is [i, dt], dt = NoTime while best_dt is None
ScanStepLast(best, i, t, t_req) ==
  LET dt == IsoParseUtc(t)
  IN  IF dt = NoTime THEN best
      ELSE IF best.dt = NoTime \/ Abs(dt - t_req) <= Abs(best.dt - t_req)
           THEN [i |-> i, dt |-> dt]
           ELSE best
ScanStep(best, i, t, t_req) ==
  LET dt == IsoParseUtc(t)
  IN  IF dt = NoTime THEN best
      ELSE IF best.dt = NoTime \/ Abs(dt - t_req) < Abs(best.dt - t_req)
           THEN [i |-> i, dt |-> dt]
           ELSE best

RECURSIVE Scan(_, _, _, _)
\* the for loop of lines 61-69 from 0-based index i on
Scan(best, i, times, t_req) ==
  IF i >= Len(times) THEN best
  ELSE Scan(ScanStep(best, i, times[i + 1], t_req), i + 1, times, t_req)

\* _pick_index(times, requested_iso): a 0-based index
pick_index(times, req) ==
  IF times = <<>> THEN 0
  ELSE IF ParseTarget(req) = NoTime THEN 0
  ELSE Scan([i |-> 0, dt |-> NoTime], 0, times, ParseTarget(req)).i

\* ---------------------------------------------------------------- _uv_to_speed_dir
\* float(x): defined on numbers only, a non-numeric string or null raises
IsFloat(x) == x.k = "num"

RECURSIVE SqrtIn(_, _, _)
\* the r of lo..hi with r * r <= x < (r + 1) * (r + 1), by bisection
SqrtIn(lo, hi, x) ==
  IF lo >= hi THEN lo
  ELSE LET mid == (lo + hi + 1) \div 2
       IN  IF mid * mid <= x THEN SqrtIn(mid, hi, x) ELSE SqrtIn(lo, mid - 1, x)

\* math.hypot on fixed-point hundredths: the integer square root of
\* u * u + v * v, which is at most |u| + |v|
Hypot(u, v) == SqrtIn(0, Abs(u) + Abs(v), u * u + v * v)

\* math.degrees(math.atan2(a, b)) in hundredths of a degree, in (-180, 180],
\* tabulated for the component values the ocean documents of the model carry
Atan2Deg(a, b) ==
  CASE a = 0 /\ b >= 0 -> 0
    [] a = 0 /\ b < 0 -> 18000
    [] a > 0 /\ b = 0 -> 9000
    [] a < 0 /\ b = 0 -> -9000
    [] a = 300 /\ b = 400 -> 3687
    [] a = -300 /\ b = 400 -> -3687
    [] a = 400 /\ b = 300 -> 5313
    [] a = 400 /\ b = -300 -> 12687
    [] a = 300 /\ b = -400 -> 14313
    [] a = -300 /\ b = -400 -> -14313

\* _uv_to_speed_dir(u, v): <<speed, bearing>>
uv_to_speed_dir_swapped(u, v) ==
  IF ~(IsFloat(u) /\ IsFloat(v)) THEN <<None, None>>
  ELSE <<Num(Hypot(u.n, v.n)), Num((Atan2Deg(v.n, u.n) + 36000) % 36000)>>
uv_to_speed_dir(u, v) ==
  IF ~(IsFloat(u) /\ IsFloat(v)) THEN <<None, None>>
  ELSE <<Num(Hypot(u.n, v.n)), Num((Atan2Deg(u.n, v.n) + 36000) % 36000)>>

\* ---------------------------------------------------------------- documents
WindKeys == {"windspeed_10m", "winddirection_10m"}
WaveKeys == {"wave_height", "wave_direction", "swell_wave_height",
             "swell_wave_direction", "wind_wave_height", "wind_wave_direction"}
OceanKeys == {"current_speed", "current_direction", "current",
              "current_u", "current_v"}

\* a variable of the "hourly" object: `k in hourly`, and the array under it
Absent == [present |-> FALSE, arr |-> <<>>]
Arr(a) == [present |-> TRUE, arr |-> a]

\* a parsed JSON document, reduced to its "hourly" object: the "time" array
\* (<<>> when the key or "hourly" itself is missing) and, for each variable
\* of K (those the code reads from this source), its array.  This one is {}.
EmptyDoc(K) == [time |-> <<>>, vars |-> [k \in K |-> Absent]]

\* `not h` for the hourly object h of document d
HourlyEmpty(d) == d.time = <<>> /\ \A k \in DOMAIN d.vars : ~d.vars[k].present

\* ---------------------------------------------------------------- field reads
\* `h.get(k, [None])[i] if k in h else None` (lines 137-138, 169-170,
\* 176-177): IndexError when the array is too short for i
GuardedRead(d, k, i) ==
  IF ~d.vars[k].present THEN [raised |-> FALSE, v |-> None]
  ELSE IF i + 1 > Len(d.vars[k].arr) THEN [raised |-> TRUE, v |-> None]
  ELSE [raised |-> FALSE, v |-> d.vars[k].arr[i + 1]]

\* the local get(h, k) of lines 149-151: any exception gives None
SafeGet(d, k, i) ==
  IF d.vars[k].present
  THEN IF i + 1 > Len(d.vars[k].arr) THEN None ELSE d.vars[k].arr[i + 1]
  ELSE None

\* lines 173-175: the legacy "current" variable read into a speed that is
\* still None; an exception leaves the speed as it was
AliasRead(d, speed, i) ==
  IF speed = None /\ d.vars["current"].present /\ i + 1 <= Len(d.vars["current"].arr)
  THEN d.vars["current"].arr[i + 1]
  ELSE speed

\* `out["iso_time"] = out["iso_time"] or times[i]` (lines 136, 148, 167)
IsoOrLater(cur, cand) == cand
IsoOr(cur, cand) == IF Truthy(cur) THEN cur ELSE cand

\* out[k] = v
Put(out, k, v) == [x \in (DOMAIN out) \cup {k} |-> IF x = k THEN v ELSE out[x]]

RECURSIVE PutAll(_, _, _)
\* out[k] = v for every k of ks
PutAllFirst(out, ks, v) ==
  IF ks = {} THEN out
  ELSE Put(out, CHOOSE x \in ks : TRUE, v)
PutAll(out, ks, v) ==
  IF ks = {} THEN out
  ELSE LET k == CHOOSE x \in ks : TRUE IN PutAll(Put(out, k, v), ks \ {k}, v)

\* ---------------------------------------------------------------- extract_values
WaveFields == {"waveHeight", "waveDirection", "swellHeight",
               "swellDirection", "windWaveHeight", "windWaveDirection"}

\* the variable each wave field is read from (lines 152-157)
WaveKey(f) ==
  CASE f = "waveHeight" -> "wave_height"
    [] f = "waveDirection" -> "wave_direction"
    [] f = "swellHeight" -> "swell_wave_height"
    [] f = "swellDirection" -> "swell_wave_direction"
    [] f = "windWaveHeight" -> "wind_wave_height"
    [] f = "windWaveDirection" -> "wind_wave_direction"

\* lines 131-141: the forecast section; [raised, out]
WindSectionNoElse(out, fc, req) ==
  IF fc.time # <<>>
  THEN LET i == pick_index(fc.time, req)
           ws == GuardedRead(fc, "windspeed_10m", i)
           wd == GuardedRead(fc, "winddirection_10m", i)
           o1 == [out EXCEPT !["iso_time"] = IsoOr(@, fc.time[i + 1])]
       IN  [raised |-> ws.raised \/ wd.raised,
            out |-> Put(Put(o1, "windSpeed", ws.v), "windDirection", wd.v)]
  ELSE [raised |-> FALSE, out |-> out]
WindSection(out, fc, req) ==
  IF fc.time # <<>>
  THEN LET i == pick_index(fc.time, req)
           ws == GuardedRead(fc, "windspeed_10m", i)
           wd == GuardedRead(fc, "winddirection_10m", i)
           o1 == [out EXCEPT !["iso_time"] = IsoOr(@, fc.time[i + 1])]
       IN  [raised |-> ws.raised \/ wd.raised,
            out |-> Put(Put(o1, "windSpeed", ws.v), "windDirection", wd.v)]
  ELSE [raised |-> FALSE,
        out |-> Put(Put(out, "windSpeed", None), "windDirection", None)]

\* lines 143-160: the marine section
WaveSection(out, ma, req) ==
  IF ma.time # <<>>
  THEN LET i == pick_index(ma.time, req)
           o1 == [out EXCEPT !["iso_time"] = IsoOr(@, ma.time[i + 1])]
       IN  [raised |-> FALSE,
            out |-> [x \in (DOMAIN o1) \cup WaveFields |->
                       IF x \in WaveFields THEN SafeGet(ma, WaveKey(x), i) ELSE o1[x]]]
  ELSE [raised |-> FALSE, out |-> PutAll(out, WaveFields, None)]

\* lines 172-181: speed and direction after the alias and the u/v fill
FillCurrent(oc, speed, direction, u, v, i) ==
  IF speed = None \/ direction = None
  THEN LET s1 == AliasRead(oc, speed, i)
           sd == uv_to_speed_dir(u, v)
       IN  IF u # None /\ v # None
           THEN <<IF s1 = None THEN sd[1] ELSE s1,
                  IF direction = None THEN sd[2] ELSE direction>>
           ELSE <<s1, direction>>
  ELSE <<speed, direction>>

\* lines 162-187: the ocean section
OceanSection(out, oc, req) ==
  IF oc.time # <<>>
  THEN LET i == pick_index(oc.time, req)
           o1 == [out EXCEPT !["iso_time"] = IsoOr(@, oc.time[i + 1])]
           sp == GuardedRead(oc, "current_speed", i)
           dr == GuardedRead(oc, "current_direction", i)
           needFill == sp.v = None \/ dr.v = None
           u == GuardedRead(oc, "current_u", i)
           v == GuardedRead(oc, "current_v", i)
           sd == FillCurrent(oc, sp.v, dr.v, u.v, v.v, i)
       IN  [raised |-> sp.raised \/ dr.raised \/ (needFill /\ (u.raised \/ v.raised)),
            out |-> Put(Put(o1, "currentSpeed", sd[1]), "currentDirection", sd[2])]
  ELSE [raised |-> FALSE,
        out |-> Put(Put(out, "currentSpeed", None), "currentDirection", None)]

\* line 128: the target extract_values uses, arg being its requested_iso
\* argument and preq the payload's "_requested_iso"
EffectiveReq(arg, preq) == IF Truthy(arg) THEN arg ELSE preq

\* extract_values(payload, requested_iso): [raised, out]
extract_values(fc, ma, oc, preq, arg) ==
  LET req == EffectiveReq(arg, preq)
      w == WindSection([x \in {"iso_time"} |-> None], fc, req)
      m == WaveSection(w.out, ma, req)
      o == OceanSection(m.out, oc, req)
  IN  IF w.raised THEN [raised |-> TRUE, out |-> <<>>]
      ELSE IF o.raised THEN [raised |-> TRUE, out |-> <<>>]
      ELSE [raised |-> FALSE, out |-> o.out]

\* ---------------------------------------------------------------- responses
\* an hourly grid of n entries starting at local hour s, written in zone tz
Grid(s, n, tz) == [i \in 1..n |-> T(s + i - 1, tz)]

\* the number a source reports for variable k at position i (hundredths)
Base(k) ==
  CASE k = "windspeed_10m" -> 1200
    [] k = "winddirection_10m" -> 27000
    [] k = "wave_height" -> 150
    [] k = "wave_direction" -> 18000
    [] k = "swell_wave_height" -> 110
    [] k = "swell_wave_direction" -> 20000
    [] k = "wind_wave_height" -> 40
    [] k = "wind_wave_direction" -> 16000
    [] k = "current_speed" -> 200
    [] k = "current_direction" -> 4500
    [] k = "current" -> 70
    [] k = "current_u" -> 300
    [] k = "current_v" -> 400

Full(k, n) == Arr([i \in 1..n |-> Num(Base(k) + i)])
\* one entry fewer than the time axis
Short(k, n) == Arr([i \in 1..(n - 1) |-> Num(Base(k) + i)])
Nulls(n) == Arr([i \in 1..n |-> None])
Const(v, n) == Arr([i \in 1..n |-> v])

Shapes(k, n) == {Absent, Full(k, n), Short(k, n)}

\* a document of a source with variables K: time axis ax, the arrays of vs
MkDoc(K, ax, vs) ==
  [time |-> ax,
   vars |-> [k \in K |-> IF k \in DOMAIN vs THEN vs[k] ELSE Absent]]

\* the result of one _get: a document, or an exception (transport error,
\* non-success status, malformed body)
Ok(d) == [ok |-> TRUE, doc |-> d]
Fail(K) == [ok |-> FALSE, doc |-> EmptyDoc(K)]

\* a grid whose first entry does not parse
BadFirst == <<BadStr>> \o Grid(1, MaxLen - 1, "Z")

\* answers of the forecast service
WindOutcomes ==
  {Fail(WindKeys), Ok(EmptyDoc(WindKeys))} \cup
  {Ok(MkDoc(WindKeys, ax,
        [k \in WindKeys |-> IF k = "windspeed_10m" THEN a ELSE b])) :
     ax \in {Grid(0, MaxLen, "naive"), BadFirst},
     a \in Shapes("windspeed_10m", MaxLen),
     b \in Shapes("winddirection_10m", MaxLen)}

\* every variable full
WaveFull(ax) == MkDoc(WaveKeys, ax, [k \in WaveKeys |-> Full(k, Len(ax))])

\* answers of the marine service
WaveOutcomes ==
  {Fail(WaveKeys), Ok(EmptyDoc(WaveKeys)), Ok(WaveFull(Grid(0, 1, "naive")))} \cup
  {Ok([WaveFull(Grid(1, MaxLen, "+1")) EXCEPT
         !.vars[odd] = IF short THEN Short(odd, MaxLen) ELSE Absent]) :
     odd \in WaveKeys, short \in BOOLEAN}

OceanAxis == Grid(0, MaxLen, "naive")

\* the u/v variables: both absent, or the vector (u, v) at every hour
UV(u, v) == [x \in {"current_u", "current_v"} |->
               Const(IF x = "current_u" THEN u ELSE v, MaxLen)]
NoUV == [x \in {"current_u", "current_v"} |-> Absent]

\* answers of the ocean service to the current_speed,current_direction query
OceanOutcomes ==
  {Fail(OceanKeys), Ok(EmptyDoc(OceanKeys)),
   Ok(MkDoc(OceanKeys, OceanAxis, [k \in OceanKeys |->
        IF k \in {"current_speed", "current_direction"} THEN Nulls(MaxLen)
        ELSE IF k = "current" THEN Absent ELSE UV(Num(300), Num(400))[k]]))} \cup
  {Ok(MkDoc(OceanKeys, OceanAxis, [k \in OceanKeys |->
        CASE k = "current_speed" -> sp
          [] k = "current_direction" -> dr
          [] k = "current" -> al
          [] OTHER -> uv[k]])) :
     sp \in Shapes("current_speed", MaxLen) \cup {Nulls(MaxLen)},
     dr \in {Absent, Full("current_direction", MaxLen)},
     al \in {Absent, Full("current", MaxLen)},
     uv \in {NoUV, UV(Num(300), Num(400))}}

\* answers of the ocean service to the current_u,current_v query
FallbackOutcomes ==
  {Fail(OceanKeys),
   Ok(MkDoc(OceanKeys, OceanAxis, UV(Num(300), Num(400)))),
   Ok(MkDoc(OceanKeys, Grid(1, MaxLen, "Z"),
        [k \in {"current", "current_u", "current_v"} |->
           IF k = "current" THEN Full(k, MaxLen) ELSE UV(Num(-300), Num(400))[k]])),
   Ok(MkDoc(OceanKeys, OceanAxis, UV(BadStr, Num(400)))),
   Ok(MkDoc(OceanKeys, OceanAxis, [k \in {"current_u", "current_v"} |->
        IF k = "current_u" THEN Const(Num(300), MaxLen - 1)
        ELSE Const(Num(400), MaxLen)]))}

\* the requested_iso arguments extract_values is called with: the default,
\* and a string that is no timestamp
ReqArgs == {None, BadStr}

\* the datetimes fetch_point is called with
DtInputs == [h : 1..MaxLen, m : {0, 30}, tz : {"naive", "+1"}]

\* ---------------------------------------------------------------- state
VARIABLES
  pc,             \* where the call stands: "idle", "forecast", "marine",
                  \* "ocean1", "ocean2", "fetched", "done", "raised"
  requested_iso,  \* payload["_requested_iso"]
  fc_json,        \* payload["_forecast"]
  ma_json,        \* payload["_marine"]
  oc_json,        \* payload["_ocean"]
  calls,          \* the requests issued so far, in order: [req, ok, doc]
  oc_first,       \* what the first ocean request returned
  uv_answer,      \* the ocean service's answer to the current_u,current_v query
  req_arg,        \* the requested_iso argument extract_values was given
  out,            \* the record extract_values returned, <<>> before
  p_pc, p_times, p_req, p_t, p_i, p_best, p_parsed
                  \* _pick_index run step by step: position, arguments,
                  \* t_req, loop index, (best_i, best_dt), entries parsed

pipeVars == <<pc, requested_iso, fc_json, ma_json, oc_json, calls, oc_first,
              uv_answer, req_arg, out>>
pickVars == <<p_pc, p_times, p_req, p_t, p_i, p_best, p_parsed>>
vars == <<pipeVars, pickVars>>

\* ---------------------------------------------------------------- fetch_point
PipeIdle ==
  /\ pc = "idle"
  /\ requested_iso = None
  /\ fc_json = EmptyDoc(WindKeys)
  /\ ma_json = EmptyDoc(WaveKeys)
  /\ oc_json = EmptyDoc(OceanKeys)
  /\ calls = <<>>
  /\ oc_first = Fail(OceanKeys)
  /\ uv_answer = Fail(OceanKeys)
  /\ req_arg = None
  /\ out = <<>>

PickIdle ==
  /\ p_pc = "idle"
  /\ p_times = <<>>
  /\ p_req = None
  /\ p_t = NoTime
  /\ p_i = 0
  /\ p_best = [i |-> 0, dt |-> NoTime]
  /\ p_parsed = 0

Init == PipeIdle /\ PickIdle

\* lines 108-110 and the handler of line 111: the u/v request follows when
\* the first ocean _get raised or its document made line 110 raise
NeedsFallbackEither(r) ==
  \/ ~r.ok
  \/ HourlyEmpty(r.doc)
  \/ ~r.doc.vars["current_speed"].present
  \/ ~r.doc.vars["current_direction"].present
NeedsFallback(r) ==
  \/ ~r.ok
  \/ HourlyEmpty(r.doc)
  \/ (~r.doc.vars["current_speed"].present /\ ~r.doc.vars["current_direction"].present)

\* the statement that runs after a request: every try block of lines 98-117
\* falls through to the next one whatever the request did
AfterAbort(at, r) ==
  CASE at = "forecast" -> IF r.ok THEN "marine" ELSE "fetched"
    [] at = "marine" -> IF r.ok THEN "ocean1" ELSE "fetched"
    [] at = "ocean1" -> IF NeedsFallback(r) THEN "ocean2" ELSE "fetched"
    [] at = "ocean2" -> "fetched"
After(at, r) ==
  CASE at = "forecast" -> "marine"
    [] at = "marine" -> "ocean1"
    [] at = "ocean1" -> IF NeedsFallback(r) THEN "ocean2" ELSE "fetched"
    [] at = "ocean2" -> "fetched"

\* lines 99-101, 103-105, 107, 113-117: the document a request leaves in
\* its variable, old being what the variable held
Caught(old, r) == IF r.ok THEN r.doc ELSE old

\* lines 82-97: the call starts; the ocean service's state is fixed for it
StartFetch ==
  /\ pc = "idle"
  /\ \E dt \in DtInputs : requested_iso' = nearest_hour(dt)
  /\ \E a \in FallbackOutcomes : uv_answer' = a
  /\ pc' = "forecast"
  /\ fc_json' = EmptyDoc(WindKeys)
  /\ ma_json' = EmptyDoc(WaveKeys)
  /\ oc_json' = EmptyDoc(OceanKeys)
  /\ UNCHANGED <<calls, oc_first, req_arg, out, pickVars>>

\* lines 98-101
GetForecast ==
  /\ pc = "forecast"
  /\ \E r \in WindOutcomes :
       /\ fc_json' = Caught(fc_json, r)
       /\ calls' = Append(calls, [req |-> "forecast", ok |-> r.ok, doc |-> r.doc])
       /\ pc' = After("forecast", r)
  /\ UNCHANGED <<requested_iso, ma_json, oc_json, oc_first, uv_answer, req_arg, out, pickVars>>

\* lines 102-105
GetMarine ==
  /\ pc = "marine"
  /\ \E r \in WaveOutcomes :
       /\ ma_json' = Caught(ma_json, r)
       /\ calls' = Append(calls, [req |-> "marine", ok |-> r.ok, doc |-> r.doc])
       /\ pc' = After("marine", r)
  /\ UNCHANGED <<requested_iso, fc_json, oc_json, oc_first, uv_answer, req_arg, out, pickVars>>

\* lines 106-110
GetOcean1 ==
  /\ pc = "ocean1"
  /\ \E r \in OceanOutcomes :
       /\ oc_json' = Caught(oc_json, r)
       /\ oc_first' = r
       /\ calls' = Append(calls, [req |-> "ocean1", ok |-> r.ok, doc |-> r.doc])
       /\ pc' = After("ocean1", r)
  /\ UNCHANGED <<requested_iso, fc_json, ma_json, uv_answer, req_arg, out, pickVars>>

\* lines 111-117
GetOcean2 ==
  /\ pc = "ocean2"
  /\ oc_json' = Caught(EmptyDoc(OceanKeys), uv_answer)
  /\ calls' = Append(calls, [req |-> "ocean2", ok |-> uv_answer.ok, doc |-> uv_answer.doc])
  /\ pc' = After("ocean2", uv_answer)
  /\ UNCHANGED <<requested_iso, fc_json, ma_json, oc_first, uv_answer, req_arg, out, pickVars>>

\* lines 127-189, on the payload fetch_point returned (lines 119-125)
DoExtract ==
  /\ pc = "fetched"
  /\ \E arg \in ReqArgs :
       LET r == extract_values(fc_json, ma_json, oc_json, requested_iso, arg)
       IN  /\ req_arg' = arg
           /\ out' = r.out
           /\ pc' = IF r.raised THEN "raised" ELSE "done"
  /\ UNCHANGED <<requested_iso, fc_json, ma_json, oc_json, calls, oc_first,
                 uv_answer, pickVars>>

Next == StartFetch \/ GetForecast \/ GetMarine \/ GetOcean1 \/ GetOcean2 \/ DoExtract

Spec == Init /\ [][Next]_vars

\* ---------------------------------------------------------------- _pick_index, step by step
PickStrs == {T(h, tz) : h \in 0..MaxHour, tz \in Zones} \cup {BadStr}
PickAxes == UNION {[1..n -> PickStrs] : n \in 0..PickMaxLen}
PickTargets == PickStrs \cup {None}

InitPick ==
  /\ PipeIdle
  /\ p_pc = "entry"
  /\ p_times \in PickAxes
  /\ p_req \in PickTargets
  /\ p_t = NoTime
  /\ p_i = 0
  /\ p_best = [i |-> 0, dt |-> NoTime]
  /\ p_parsed = 0

\* lines 49-60
PickEntry ==
  /\ p_pc = "entry"
  /\ IF p_times = <<>> THEN p_pc' = "done" /\ p_t' = p_t
     ELSE /\ p_t' = ParseTarget(p_req)
          /\ p_pc' = IF ParseTarget(p_req) = NoTime THEN "done" ELSE "loop"
  /\ UNCHANGED <<p_times, p_req, p_i, p_best, p_parsed, pipeVars>>

\* lines 61-69, one entry
PickLoop ==
  /\ p_pc = "loop"
  /\ p_i < Len(p_times)
  /\ p_best' = ScanStep(p_best, p_i, p_times[p_i + 1], p_t)
  /\ p_parsed' = p_parsed + 1
  /\ p_i' = p_i + 1
  /\ UNCHANGED <<p_pc, p_times, p_req, p_t, pipeVars>>

\* line 70
PickReturn ==
  /\ p_pc = "loop"
  /\ p_i = Len(p_times)
  /\ p_pc' = "done"
  /\ UNCHANGED <<p_times, p_req, p_t, p_i, p_best, p_parsed, pipeVars>>

NextPick == PickEntry \/ PickLoop \/ PickReturn

SpecPick == InitPick /\ [][NextPick]_vars

\* the index _pick_index returned
PickResult == p_best.i

\* the step-by-step run returns what the operator pick_index computes
PickStepsAgree == p_pc = "done" => PickResult = pick_index(p_times, p_req)

\* ---------------------------------------------------------------- properties
OutKeys == {"iso_time", "windSpeed", "windDirection", "currentSpeed",
            "currentDirection"} \cup WaveFields

\* out.get(k), with a value no document carries for a key out lacks
Field(o, k) == IF k \in DOMAIN o THEN o[k] ELSE [k |-> "nokey", n |-> 0, tz |-> ""]

\* the call has returned from fetch_point
Fetched == pc \in {"fetched", "done", "raised"}

\* the 0-based index extract_values selects in document d
Idx(d) == pick_index(d.time, IF req_arg = None THEN requested_iso ELSE req_arg)

\* variable k of d is missing at the selected index: no key, or a null entry
Missing(d, k) ==
  \/ ~d.vars[k].present
  \/ (Idx(d) + 1 <= Len(d.vars[k].arr) /\ d.vars[k].arr[Idx(d) + 1] = None)

\* variable k of d has a number at the selected index
Numeric(d, k) ==
  /\ d.vars[k].present
  /\ Idx(d) + 1 <= Len(d.vars[k].arr)
  /\ d.vars[k].arr[Idx(d) + 1].k = "num"

\* the entry of variable k at the selected index, None when there is none
At(d, k) ==
  IF d.time # <<>> /\ d.vars[k].present /\ Idx(d) + 1 <= Len(d.vars[k].arr)
  THEN d.vars[k].arr[Idx(d) + 1]
  ELSE None

\* C4: when every request fails (forecast, marine, both ocean requests),
\* extract_values raises nothing and returns a record with exactly the
\* eleven keys, each null.
C4_AllFailAllNull ==
  (pc \in {"done", "raised"} /\ \A i \in 1..Len(calls) : ~calls[i].ok)
    => /\ pc = "done"
       /\ DOMAIN out = OutKeys
       /\ \A k \in OutKeys : Field(out, k) = None

C4_Witness ==
  /\ pc = "done"
  /\ Len(calls) = 4
  /\ \A i \in 1..4 : ~calls[i].ok
  /\ out = [k \in OutKeys |-> None]

\* C10: the requests are issued one at a time in the order forecast, marine,
\* ocean (speed/direction), then at most one ocean (u/v) request; each is
\* issued only when the one before has completed; a call makes three or four
\* requests, and from every point of the sequence the next step can be taken.
RequestOrder == <<"forecast", "marine", "ocean1", "ocean2">>

C10_SequentialRequests ==
  /\ Len(calls) <= 4
  /\ \A i \in 1..Len(calls) : calls[i].req = RequestOrder[i]
  /\ pc = "idle" => calls = <<>>
  /\ \A i \in 1..4 : pc = RequestOrder[i] => Len(calls) = i - 1
  /\ Fetched => Len(calls) \in {3, 4}
  /\ pc \in {"forecast", "marine", "ocean1", "ocean2"}
       => ENABLED (GetForecast \/ GetMarine \/ GetOcean1 \/ GetOcean2)

C10_Witness ==
  /\ pc = "fetched"
  /\ Len(calls) = 4
  /\ ~calls[1].ok /\ ~calls[2].ok /\ calls[3].ok /\ calls[4].ok

\* the document of the first ocean response lacks both preferred variables
LacksBoth(d) ==
  ~d.vars["current_speed"].present /\ ~d.vars["current_direction"].present

FallbackIssued == Len(calls) = 4

Sel(d) == d.time[Idx(d) + 1]

\* C5: iso_time is the selected time-axis string of the first source, in
\* the order forecast, marine, ocean, that has a time axis, whatever the
\* later sources selected; it is null exactly when no source has one.
C5_IsoTimePriority ==
  pc = "done" =>
    /\ Field(out, "iso_time") =
         IF fc_json.time # <<>> THEN Sel(fc_json)
         ELSE IF ma_json.time # <<>> THEN Sel(ma_json)
         ELSE IF oc_json.time # <<>> THEN Sel(oc_json)
         ELSE None
    /\ Field(out, "iso_time") = None
         <=> (fc_json.time = <<>> /\ ma_json.time = <<>> /\ oc_json.time = <<>>)

C5_Witness ==
  /\ pc = "done"
  /\ fc_json.time # <<>> /\ ma_json.time # <<>> /\ oc_json.time # <<>>
  /\ Sel(fc_json) # Sel(ma_json)
  /\ IsoParseUtc(Sel(fc_json)) # IsoParseUtc(Sel(ma_json))
  /\ out["iso_time"] = Sel(fc_json)

\* the speed and bearing of the vectors the ocean documents carry
VecSpeed(u, v) ==
  CASE u.n = 300 /\ v.n = 400 -> 500
    [] u.n = -300 /\ v.n = 400 -> 500
VecBearing(u, v) ==
  CASE u.n = 300 /\ v.n = 400 -> 3687
    [] u.n = -300 /\ v.n = 400 -> 32313

\* both preferred fields are missing and u, v are numbers at the selected
\* index of the ocean document of the payload
VectorCase ==
  /\ oc_json.time # <<>>
  /\ Missing(oc_json, "current_speed") /\ Missing(oc_json, "current_direction")
  /\ Numeric(oc_json, "current_u") /\ Numeric(oc_json, "current_v")

\* C7, as claimed: whenever both fields are missing and u and v are numbers
\* at the matched index, currentSpeed is the magnitude of (u, v) (5 for
\* (3, 4)) and currentDirection its bearing.
C7_Original ==
  (pc = "done" /\ VectorCase) =>
    /\ Field(out, "currentSpeed") =
         Num(VecSpeed(At(oc_json, "current_u"), At(oc_json, "current_v")))
    /\ Field(out, "currentDirection") =
         Num(VecBearing(At(oc_json, "current_u"), At(oc_json, "current_v")))

\* C7, amended: in that case currentDirection is the bearing of (u, v), and
\* currentSpeed is the magnitude of (u, v) unless the document carries a
\* non-null legacy "current" entry at the matched index, which is then the
\* speed.
C7_VectorDerived ==
  (pc = "done" /\ VectorCase) =>
    /\ Field(out, "currentSpeed") =
         IF At(oc_json, "current") # None THEN At(oc_json, "current")
         ELSE Num(VecSpeed(At(oc_json, "current_u"), At(oc_json, "current_v")))
    /\ Field(out, "currentDirection") =
         Num(VecBearing(At(oc_json, "current_u"), At(oc_json, "current_v")))

C7_Witness ==
  /\ pc = "done"
  /\ oc_first.ok /\ LacksBoth(oc_first.doc) /\ FallbackIssued
  /\ VectorCase
  /\ At(oc_json, "current_u") = Num(300) /\ At(oc_json, "current_v") = Num(400)
  /\ out["currentSpeed"] = Num(500)
  /\ out["currentDirection"] = Num(3687)

\* the variable a wind or current field is read from
DirectKey(f) ==
  CASE f = "windSpeed" -> "windspeed_10m"
    [] f = "windDirection" -> "winddirection_10m"
    [] f = "currentSpeed" -> "current_speed"
    [] f = "currentDirection" -> "current_direction"

\* variable k of d has no key, or an array too short for the selected index
KeyMissingOrShort(d, k) ==
  ~d.vars[k].present \/ Idx(d) + 1 > Len(d.vars[k].arr)

\* C2, as claimed: for a source with a time axis, a field whose variable is
\* missing from the response or too short for the selected index is null in
\* the record, and extract_values raises nothing.  (For the two current
\* fields the record is null when nothing else of the document fills them.)
C2_Original ==
  pc \in {"done", "raised"} =>
    /\ pc = "done"
    /\ \A f \in {"windSpeed", "windDirection"} :
         (fc_json.time # <<>> /\ KeyMissingOrShort(fc_json, DirectKey(f)))
           => Field(out, f) = None
    /\ \A f \in WaveFields :
         (ma_json.time # <<>> /\ KeyMissingOrShort(ma_json, WaveKey(f)))
           => Field(out, f) = None
    /\ \A f \in {"currentSpeed", "currentDirection"} :
         (/\ oc_json.time # <<>>
          /\ KeyMissingOrShort(oc_json, DirectKey(f))
          /\ \A k \in {"current", "current_u", "current_v"} : ~oc_json.vars[k].present)
           => Field(out, f) = None

\* C1, as claimed: when the first ocean response has a speed but no
\* direction at the matched index and the service has numeric u and v to
\* give, the record keeps that speed and has a non-null direction.
C1_Original ==
  (/\ pc = "done"
   /\ oc_first.ok /\ oc_first.doc.time # <<>>
   /\ Numeric(oc_first.doc, "current_speed")
   /\ Missing(oc_first.doc, "current_direction")
   /\ uv_answer.ok /\ uv_answer.doc.time # <<>>
   /\ Numeric(uv_answer.doc, "current_u") /\ Numeric(uv_answer.doc, "current_v"))
    => /\ Field(out, "currentSpeed") = At(oc_first.doc, "current_speed")
       /\ Field(out, "currentDirection") # None

\* the last document the ocean service returned
LastOcean == calls[Len(calls)]

\* C8: a source all of whose requests fail stops nothing: the other sources
\* are still requested, the record has null for the failing source's
\* fields, and the fields of every other source are what the document that
\* source returned determines.
C8_FailureIsolated ==
  /\ Fetched => Len(calls) >= 3
  /\ pc = "done" =>
       /\ ~calls[1].ok =>
            Field(out, "windSpeed") = None /\ Field(out, "windDirection") = None
       /\ ~calls[2].ok => \A f \in WaveFields : Field(out, f) = None
       /\ (\A i \in 3..Len(calls) : ~calls[i].ok) =>
            Field(out, "currentSpeed") = None /\ Field(out, "currentDirection") = None
       /\ calls[1].ok =>
            \A f \in {"windSpeed", "windDirection"} :
              Field(out, f) = At(calls[1].doc, DirectKey(f))
       /\ calls[2].ok =>
            \A f \in WaveFields : Field(out, f) = At(calls[2].doc, WaveKey(f))
       /\ LastOcean.ok =>
            \A f \in {"currentSpeed", "currentDirection"} :
              Field(out, f) =
                OceanSection([x \in {"iso_time"} |-> None], LastOcean.doc,
                             IF req_arg = None THEN requested_iso ELSE req_arg).out[f]

C8_Witness ==
  /\ pc = "done"
  /\ ~calls[1].ok /\ calls[2].ok /\ LastOcean.ok
  /\ out["windSpeed"] = None /\ out["windDirection"] = None
  /\ out["waveHeight"] # None
  /\ out["currentSpeed"] # None

\* ---------------------------------------------------------------- selector properties
\* the UTC instant of a time string, a naive one read as UTC
Instant(s) == IF s.tz = "+1" THEN s.n - 1 ELSE s.n

Parses(s) == s.k = "time"

\* position j (1-based) of p_times is a parseable entry nearest to the
\* target, and no earlier parseable entry is as near
NearestFirst(j) ==
  /\ j \in 1..Len(p_times)
  /\ Parses(p_times[j])
  /\ \A m \in 1..Len(p_times) :
       Parses(p_times[m]) =>
         /\ Abs(Instant(p_times[j]) - Instant(p_req)) <=
              Abs(Instant(p_times[m]) - Instant(p_req))
         /\ m < j => Abs(Instant(p_times[j]) - Instant(p_req)) <
                       Abs(Instant(p_times[m]) - Instant(p_req))

\* C6, as claimed: for every non-empty time axis and parseable target the
\* index returned is a parseable entry with the least absolute difference
\* to the target, the first such entry on a tie; an entry that does not
\* parse is never the one selected.
C6_Original ==
  (p_pc = "done" /\ p_times # <<>> /\ Parses(p_req)) => NearestFirst(PickResult + 1)

\* C6, amended: that holds when at least one entry parses; when none does
\* the index returned is 0.
C6_NearestFirstParseable ==
  (p_pc = "done" /\ p_times # <<>> /\ Parses(p_req)) =>
    IF \E m \in 1..Len(p_times) : Parses(p_times[m])
    THEN NearestFirst(PickResult + 1)
    ELSE PickResult = 0

C6_Witness ==
  /\ p_pc = "done"
  /\ Parses(p_req)
  /\ \E i, j \in 1..Len(p_times) :
       /\ i < j /\ Parses(p_times[i]) /\ Parses(p_times[j])
       /\ Instant(p_times[i]) # Instant(p_times[j])
       /\ Abs(Instant(p_times[i]) - Instant(p_req)) =
            Abs(Instant(p_times[j]) - Instant(p_req))
       /\ PickResult = i - 1
       /\ p_times[i].tz = "naive"

\* C9: with an empty time axis, or a target that is null or does not parse,
\* _pick_index returns 0 and parses no entry of the time axis.
C9_DegradedReturnsZero ==
  (p_pc = "done" /\ (p_times = <<>> \/ ~Parses(p_req))) =>
    PickResult = 0 /\ p_parsed = 0 /\ p_i = 0

C9_Witness ==
  /\ p_pc = "done"
  /\ Len(p_times) = PickMaxLen
  /\ \A m \in 1..Len(p_times) : Parses(p_times[m])
  /\ p_req = BadStr
  /\ PickResult = 0 /\ p_parsed = 0

====
